---- MODULE Spec2Model ----
(***************************************************************************)
(* A model of mfm-fan-cult-manager: the ingestion runs of the two content  *)
(* kinds (minisodes.py, videos.py), the download flow and the list / feed  *)
(* queries, with the SQLAlchemy session, the sqlite tables and the file    *)
(* system they act on.                                                     *)
(*                                                                         *)
(* Text is a sequence of one-character strings, so that strip(), basename  *)
(* and LIKE are computed and not assumed.                                  *)
(***************************************************************************)
EXTENDS Integers, Sequences, FiniteSets, TLC

VARIABLES
    kind,          \* the content class of this behaviour: "minisodes" or "videos"
    autoflush,     \* whether the session flushes pending objects before a query
    store,         \* the committed rows of the content table
    pc,            \* position of the running command
    listing,       \* the candidates parsed from the listing page, in discovery order
    idx,           \* index of the next candidate of the scan
    pending,       \* session.new: objects added and not yet flushed
    flushed,       \* rows INSERTed in the open transaction, not yet committed
    added,         \* the local list `added` of _update_episodes / _update_videos
    repeat,        \* the run was started right after a completed run, against
                   \* the listing that run was made against
    storeAtStart,  \* the committed rows when the running or last command began
    report,        \* what the last command told the user
    dirs,          \* the directories that exist
    files,         \* the regular files that exist: path -> content
    dl,            \* the download in progress: item, flags, resolved names
    events,        \* what the running or last command did, in order
    dirsAtStart,   \* the directories when the running or last command began
    filesAtStart,  \* the files when the running or last command began
    out,           \* the rows the last list / feed command produced, and where
    accounts,      \* the rows of the account table, in the order a scan gives
    auth           \* the account resolution or login in progress, or the last

cfgVars == <<kind, autoflush>>
ingestVars == <<listing, idx, pending, flushed, added, repeat>>
fsVars == <<dirs, files>>
dlVars == <<dl, events, dirsAtStart, filesAtStart>>

acctVars == <<accounts, auth>>

vars == <<cfgVars, store, pc, storeAtStart, report, ingestVars, fsVars, dlVars,
          out, acctVars>>

(***************************************************************************)
(* Bounds.                                                                 *)
(***************************************************************************)
MaxListing == 2

(***************************************************************************)
(* Text helpers.                                                           *)
(***************************************************************************)
Whitespace == {" "}

RECURSIVE LStrip(_)
LStrip(s) ==
    IF s # <<>> /\ Head(s) \in Whitespace THEN LStrip(Tail(s)) ELSE s

RECURSIVE RStrip(_)
RStrip(s) ==
    IF s # <<>> /\ s[Len(s)] \in Whitespace
    THEN RStrip(SubSeq(s, 1, Len(s) - 1))
    ELSE s

\* str.strip()
Strip(s) == RStrip(LStrip(s))

\* FanCultContent.base_url, one symbol standing for the literal prefix
BaseUrl == <<"H">>

Kinds == {"minisodes", "videos"}

(***************************************************************************)
(* The upstream listing.  A candidate is one listing block: whether it     *)
(* carries a title heading, the heading's raw text, the raw href of its    *)
(* link, its publish date, and what the detail page (episodes) or the      *)
(* block itself (videos) gives as descriptive text and media reference.    *)
(***************************************************************************)
Candidates ==
    { [h1 |-> TRUE,  title |-> <<"a">>,      href |-> <<"/", "x">>,      date |-> 2,
       text |-> <<"t">>, media |-> <<"u", "/", "f">>],
      [h1 |-> TRUE,  title |-> <<" ", "a">>, href |-> <<"/", "x", " ">>, date |-> 1,
       text |-> <<"t", " ">>, media |-> <<"u", "/", "f", " ">>],
      [h1 |-> TRUE,  title |-> <<"b">>,      href |-> <<"/", "x">>,      date |-> 1,
       text |-> <<"s">>, media |-> <<"u", "/", "g">>],
      [h1 |-> FALSE, title |-> <<>>,         href |-> <<"/", "y">>,      date |-> 3,
       text |-> <<"s">>, media |-> <<"u", "/", "g">>] }

RECURSIVE SeqsUpTo(_, _)
SeqsUpTo(S, n) ==
    IF n = 0 THEN {<<>>}
    ELSE LET shorter == SeqsUpTo(S, n - 1)
         IN  shorter \cup {Append(s, x) : s \in shorter, x \in S}

Listings == SeqsUpTo(Candidates, MaxListing)

\* what a request made while one candidate is completed can come back with
Responses == {"ok", "parse", "net"}

(***************************************************************************)
(* The session and the table.                                              *)
(***************************************************************************)
Ids(rows) == {r.id : r \in rows}

Max(S) == CHOOSE x \in S : \A y \in S : y <= x

\* Integer primary key without AUTOINCREMENT: the next rowid is max + 1
NextId(rows) == IF rows = {} THEN 1 ELSE Max(Ids(rows)) + 1

MkRow(item, id) ==
    [id |-> id, title |-> item.title, url |-> item.url, date |-> item.date,
     text |-> item.text, media |-> item.media]

\* flush: INSERT the pending objects, in the order they were added.  The
\* table declares a primary key and no other constraint, so every row is
\* accepted.
RECURSIVE InsertAll(_, _)
InsertAll(items, rows) ==
    IF items = <<>> THEN rows
    ELSE InsertAll(Tail(items), rows \cup {MkRow(Head(items), NextId(rows))})

\* the rows of the open transaction after the flush a query does first
FlushedForQuery(pend, fl, st) ==
    IF autoflush THEN InsertAll(pend, st \cup fl) \ st ELSE fl

PendingAfterQuery(pend) == IF autoflush THEN <<>> ELSE pend

\* filter_by(title=title, url=url)
Matching(rows, title, url) == {r \in rows : r.title = title /\ r.url = url}

\* the dedup key of a candidate, as _create_episode / _create_video build it
KeyTitle(c) == Strip(c.title)
KeyUrl(c) == BaseUrl \o Strip(c.href)

\* a lookup that forgets the strip() the stored key went through
FindRowsUnstripped(c, rows) == Matching(rows, c.title, BaseUrl \o c.href)

\* _find_episode / _find_video: the rows the query sees
FindRows(c, rows) == Matching(rows, KeyTitle(c), KeyUrl(c))

\* self.model(...): the episode's description and audio are stripped, the
\* video's type and vimeo locator are taken as they stand
NewItem(c) ==
    [title |-> KeyTitle(c), url |-> KeyUrl(c), date |-> c.date,
     text  |-> IF kind = "minisodes" THEN Strip(c.text) ELSE c.text,
     media |-> IF kind = "minisodes" THEN Strip(c.media) ELSE c.media]

\* `if not article.h1: return None` exists in _create_video only
SkipsNoHeading(c) == kind = "videos" /\ ~c.h1

\* _create_episode reads ep.h1.text without a check
HeadingFault(c) == kind = "minisodes" /\ ~c.h1

\* a commit inside the loop, after every add
CommittedAfterAddEager(st, fl, pend) == InsertAll(pend, st \cup fl)

\* self.db.add(item) stages the item: the committed rows stay as they are
CommittedAfterAdd(st, fl, pend) == st

\* a commit that rewrites the table from the batch alone
CommittedAfterCommitBatchOnly(st, fl, pend) == InsertAll(pend, fl)

\* self.db.commit(): flush what is pending and make the transaction durable
CommittedAfterCommit(st, fl, pend) == InsertAll(pend, st \cup fl)

\* a count of the candidates of the listing, whatever became of them
ReportedCountOfListing(a) == Len(listing)

\* update: f'Added {len(new_episodes)} new minisode(s)!'
ReportedCount(a) == Len(a)

Idle == pc \in {"idle", "done", "aborted"}

\* manager.encode(password): an opaque value that decodes to the password
Encoded(plain, salt) == [plain |-> plain, salt |-> salt]

\* a row of the account table
AccountRow(username, opaque) == [username |-> username, password |-> opaque]

\* the account table of a user who logged in once: the content commands run
\* behind login_user
OneAccount == <<AccountRow(1, Encoded("p", 1))>>

NoAuth ==
    [cmd |-> "none", username |-> 0, password |-> "none", selected |-> 0,
     prompted |-> FALSE, explicit |-> FALSE, confirmed |-> FALSE,
     status |-> "none", account |-> 0, before |-> <<>>]

NoReport == [outcome |-> "none", count |-> 0]

NoDownload ==
    [id |-> 0, yes |-> FALSE, dir |-> <<>>, title |-> <<>>, name |-> <<>>,
     resolved |-> FALSE, left |-> 0, body |-> "none", wrote |-> <<>>]

NoOutput ==
    [cmd |-> "none", rows |-> <<>>, number |-> <<>>, search |-> <<>>,
     type |-> <<>>, printed |-> FALSE, written |-> FALSE, dir |-> <<>>]

(***************************************************************************)
(* Ingestion: _update_episodes / _update_videos, one step per blocking     *)
(* request, so that a fault or an interruption can fall between any two.   *)
(***************************************************************************)

\* the end of the process on an unhandled exception or an external kill:
\* the open transaction is rolled back, the session is gone
AbortUpdate(why) ==
    /\ pc' = "aborted"
    /\ pending' = <<>>
    /\ flushed' = {}
    /\ listing' = <<>>
    /\ idx' = 1
    /\ report' = [outcome |-> why, count |-> 0]
    /\ UNCHANGED <<cfgVars, acctVars, store, added, repeat, storeAtStart, fsVars, dlVars,
                   out>>

\* the command starts: fetch the listing page and parse it into candidates
StartUpdate ==
    /\ Idle
    /\ \E l \in Listings, resp \in Responses :
         /\ idx' = 1
         /\ added' = <<>>
         /\ pending' = <<>>
         /\ flushed' = {}
         /\ storeAtStart' = store
         /\ repeat' = (pc = "done" /\ l = listing)
         /\ IF resp = "ok"
            THEN /\ pc' = "scan"
                 /\ listing' = l
                 /\ report' = NoReport
            ELSE /\ pc' = "aborted"
                 /\ listing' = <<>>
                 /\ report' = [outcome |-> resp, count |-> 0]
    /\ UNCHANGED <<cfgVars, acctVars, store, fsVars, dlVars, out>>

\* one pass of the loop body: _create_episode / _create_video, then the add
ScanCandidate ==
    /\ pc = "scan"
    /\ idx <= Len(listing)
    /\ LET c == listing[idx] IN
       IF SkipsNoHeading(c)
       THEN /\ idx' = idx + 1
            /\ UNCHANGED <<cfgVars, acctVars, store, pc, listing, pending, flushed, added,
                           repeat, storeAtStart, report, fsVars, dlVars, out>>
       ELSE IF HeadingFault(c)
       THEN AbortUpdate("parse")
       ELSE LET fl   == FlushedForQuery(pending, flushed, store)
                pend == PendingAfterQuery(pending)
                hit  == FindRows(c, store \cup fl)
            IN  IF Cardinality(hit) > 1
                THEN AbortUpdate("multiple")
                ELSE IF Cardinality(hit) = 1
                THEN /\ idx' = idx + 1
                     /\ flushed' = fl
                     /\ pending' = pend
                     /\ UNCHANGED <<cfgVars, acctVars, store, pc, listing, added, repeat,
                                    storeAtStart, report, fsVars, dlVars,
                                    out>>
                ELSE \E resp \in Responses :
                       IF resp = "ok"
                       THEN /\ idx' = idx + 1
                            /\ flushed' = fl
                            /\ pending' = Append(pend, NewItem(c))
                            /\ added' = Append(added, NewItem(c))
                            /\ store' = CommittedAfterAdd(store, fl, pending')
                            /\ UNCHANGED <<cfgVars, acctVars, pc, listing, repeat,
                                           storeAtStart, report, fsVars,
                                           dlVars, out>>
                       ELSE AbortUpdate(resp)

\* after the loop: commit if anything was added, return `added`, report
FinishUpdate ==
    /\ pc = "scan"
    /\ idx > Len(listing)
    /\ pc' = "done"
    /\ store' = IF added # <<>>
                THEN CommittedAfterCommit(store, flushed, pending)
                ELSE store
    /\ pending' = <<>>
    /\ flushed' = {}
    /\ report' = IF added # <<>>
                 THEN [outcome |-> "added", count |-> ReportedCount(added)]
                 ELSE [outcome |-> "nonew", count |-> 0]
    /\ UNCHANGED <<cfgVars, acctVars, listing, idx, added, repeat, storeAtStart, fsVars,
                   dlVars, out>>

\* the process is terminated from outside while the scan runs
InterruptUpdate ==
    /\ pc = "scan"
    /\ AbortUpdate("interrupt")

Init ==
    /\ kind \in Kinds
    /\ autoflush \in BOOLEAN
    /\ store = {}
    /\ pc = "idle"
    /\ listing = <<>>
    /\ idx = 1
    /\ pending = <<>>
    /\ flushed = {}
    /\ added = <<>>
    /\ repeat = FALSE
    /\ storeAtStart = {}
    /\ report = NoReport
    /\ dirs = {}
    /\ files = <<>>
    /\ dl = NoDownload
    /\ events = <<>>
    /\ dirsAtStart = {}
    /\ filesAtStart = <<>>
    /\ out = NoOutput
    /\ accounts = OneAccount
    /\ auth = NoAuth

Next ==
    \/ StartUpdate
    \/ ScanCandidate
    \/ FinishUpdate
    \/ InterruptUpdate

Spec == Init /\ [][Next]_vars

(***************************************************************************)
(* Ingestion properties.                                                   *)
(***************************************************************************)
ItemOf(r) ==
    [title |-> r.title, url |-> r.url, date |-> r.date, text |-> r.text,
     media |-> r.media]

\* C1: a run made right after a completed run, against the listing that run
\* was made against, stages nothing and inserts nothing: the committed rows
\* are those the run found when it began, whether it completes or stops.
C1_SecondRunAddsNothing ==
    repeat =>
        /\ added = <<>>
        /\ pending = <<>>
        /\ flushed = {}
        /\ store = storeAtStart

\* a repeat run that completed, against a listing of two candidates, on a
\* table the first run filled
C1_Witness ==
    /\ repeat
    /\ pc = "done"
    /\ report.outcome = "nonew"
    /\ Len(listing) >= 2
    /\ store # {}

\* C2: no content table holds two rows with the same (title, url), also
\* when one listing presents the same (title, url) twice in one run.
C2_UniqueTitleUrl ==
    \A r1, r2 \in store :
        (r1.title = r2.title /\ r1.url = r2.url) => r1 = r2

\* C3: the staged items become durable in one commit after the last
\* candidate; while the run scans, and after it failed or was interrupted at
\* any candidate, the committed rows are those of before the run; a run that
\* completes commits exactly the items it staged, all of them.
C3_BatchAtomic ==
    /\ pc \in {"scan", "aborted"} => store = storeAtStart
    /\ pc = "done" =>
          /\ storeAtStart \subseteq store
          /\ Cardinality(store \ storeAtStart) = Len(added)
          /\ \A i \in 1..Len(added) :
                \E r \in store \ storeAtStart : ItemOf(r) = added[i]

\* a run that had staged an item and then failed on a later candidate's
\* request: nothing of it is committed
C3_Witness ==
    /\ pc = "aborted"
    /\ report.outcome = "net"
    /\ added # <<>>
    /\ store = storeAtStart


\* the candidates of a listing are well-formed and pairwise distinct in
\* their (title, url)
DistinctWellFormed(l) ==
    /\ \A i \in 1..Len(l) : l[i].h1
    /\ \A i, j \in 1..Len(l) :
          (KeyTitle(l[i]) = KeyTitle(l[j]) /\ KeyUrl(l[i]) = KeyUrl(l[j])) => i = j

\* C11: a completed update run reports the number of rows it added to the
\* table; on an empty table, a listing of k distinct well-formed candidates
\* gives k rows and a report of k; a run that adds nothing reports "no new
\* items" and commits nothing.
C11_CountReported ==
    pc = "done" =>
        /\ report.outcome \in {"added", "nonew"}
        /\ report.outcome = "added" =>
              /\ report.count > 0
              /\ report.count = Cardinality(store \ storeAtStart)
        /\ report.outcome = "nonew" =>
              /\ added = <<>>
              /\ store = storeAtStart
        /\ (storeAtStart = {} /\ DistinctWellFormed(listing)) =>
              /\ Cardinality(store) = Len(listing)
              /\ Len(listing) > 0 =>
                    (report.outcome = "added" /\ report.count = Len(listing))

\* an update of an empty table against a listing of two distinct candidates
C11_Witness ==
    /\ pc = "done"
    /\ storeAtStart = {}
    /\ Len(listing) = 2
    /\ DistinctWellFormed(listing)
    /\ report = [outcome |-> "added", count |-> 2]
    /\ Cardinality(store) = 2

\* C15: during ingestion a candidate that lacks its title heading is never
\* passed over in silence: a run that is still scanning, or has completed,
\* has met no such candidate (meeting one ends the run with a parse error).
C15_ParseFaultSurfaced ==
    pc \in {"scan", "done"} =>
        \A i \in 1..Len(listing) : i < idx => listing[i].h1

(***************************************************************************)
(* The file system and the download flow: MinisodeContent.download /       *)
(* VideoContent.download, _get_download_dir, _get_download_path,           *)
(* _download_episode / _download_video.                                    *)
(***************************************************************************)
MaxChunks == 2

\* self.model_name.capitalize()
ModelName == IF kind = "minisodes" THEN "Minisodes" ELSE "Videos"

\* account.download_dir, and the folder a --dest option names
AccountDir == <<"acct">>
DestDir == <<"dest">>

\* the --dest option: not given, or a path that click found to exist
DestOptions == {<<>>, DestDir}

\* _get_download_dir: the directory, before it is validated
DownloadDirPath(dest, withModel) ==
    LET base == IF dest # <<>> THEN dest ELSE AccountDir
    IN  IF withModel THEN Append(base, ModelName) ELSE base

\* os.makedirs: the directory and every missing ancestor
Ancestors(d) == {SubSeq(d, 1, n) : n \in 1..Len(d)}

\* _get_download_dir: `if not os.path.isdir(dest_dir): os.makedirs(dest_dir)`
DirsAfterGetDownloadDir(d, ds) == IF d \in ds THEN ds ELSE ds \cup Ancestors(d)

\* os.path.join(base_path, file_name)
JoinPath(d, name) == [dir |-> d, name |-> name]

\* os.path.basename: what follows the last "/"
RECURSIVE Basename(_)
Basename(s) ==
    IF s = <<>> \/ s[Len(s)] = "/" THEN <<>>
    ELSE Append(Basename(SubSeq(s, 1, Len(s) - 1)), s[Len(s)])

\* _download_video: stream.title, with ".mp4" (one symbol) appended unless
\* it ends with it
VideoFileName(title) ==
    IF title # <<>> /\ title[Len(title)] = ".mp4" THEN title
    ELSE Append(title, ".mp4")

\* characters a file name cannot hold on every platform
IllegalChars == {":"}

RECURSIVE Sanitized(_)
Sanitized(s) ==
    IF s = <<>> THEN <<>>
    ELSE IF Head(s) \in IllegalChars THEN Sanitized(Tail(s))
    ELSE <<Head(s)>> \o Sanitized(Tail(s))

\* stream.download(download_directory=video_path) is given no file name: the
\* downloader names the file itself, after the stream title as it stands or
\* cleaned of the characters a file name cannot hold
LibraryFileNames(title) ==
    {VideoFileName(title), VideoFileName(Sanitized(title))}

\* a collision check that never finds the file
PathOccupiedNever(p, fs) == FALSE

\* os.path.isfile(file_path)
PathOccupied(p, fs) == p \in DOMAIN fs

\* the file system after a write of content c at path p (created or replaced)
WriteFile(fs, p, c) ==
    [q \in DOMAIN fs \cup {p} |-> IF q = p THEN c ELSE fs[q]]

OldContent == [src |-> "old", n |-> 1]
EmptyContent == [src |-> "new", n |-> 0]

\* the stream titles the video service may report for a stored video
StreamTitles == {<<"f">>, <<"f", ".mp4">>, <<"f", ":">>}

\* the tables the download commands run against
DownloadStore ==
    IF kind = "minisodes"
    THEN { [id |-> 1, title |-> <<"a">>, url |-> <<"H", "/", "x">>, date |-> 2,
            text |-> <<"t">>, media |-> <<"u", "/", "f">>],
           [id |-> 2, title |-> <<"b">>, url |-> <<"H", "/", "x">>, date |-> 1,
            text |-> <<"s">>, media |-> <<"v", "/", "f">>] }
    ELSE { [id |-> 1, title |-> <<"a">>, url |-> <<"H", "/", "x">>, date |-> 2,
            text |-> <<"t">>, media |-> <<"k">>] }

\* the ids a command may be given: those of the table and one beyond
IdArguments == 1..3

\* self.db.query(self.model).get(id)
GetById(rows, id) == {r \in rows : r.id = id}

Log(e) == events' = Append(events, e)

\* a download that never asks
ApprovalNeededNever(yes) == FALSE

\* _get_download_path: `if not yes: click.confirm(...)`
ApprovalNeeded(yes) == ~yes

\* _get_download_path, from the collision check on, for the resolved name
ResolvePath(d, name, yes, log) ==
    LET p == JoinPath(d, name) IN
    IF PathOccupied(p, files)
    THEN /\ pc' = "done"
         /\ report' = [outcome |-> "conflict", count |-> 0]
         /\ events' = log \o <<"check", "warn">>
    ELSE IF ~ApprovalNeeded(yes)
    THEN /\ pc' = "dl_transfer"
         /\ report' = NoReport
         /\ events' = log \o <<"check", "echo">>
    ELSE /\ pc' = "dl_prompt"
         /\ report' = NoReport
         /\ events' = log \o <<"check", "prompt">>

\* the command: resolve the directory, look the item up, and for an episode
\* go on to _get_download_path (no request is made before it)
StartDownload ==
    /\ Idle
    /\ \E id \in IdArguments, yes \in BOOLEAN, dest \in DestOptions :
         LET d    == DownloadDirPath(dest, TRUE)
             item == GetById(store, id)
         IN  /\ dirsAtStart' = dirs
             /\ filesAtStart' = files
             /\ storeAtStart' = store
             /\ dirs' = DirsAfterGetDownloadDir(d, dirs)
             /\ files' = files
             /\ IF item = {}
                THEN /\ dl' = [NoDownload EXCEPT !.id = id, !.yes = yes, !.dir = d]
                     /\ pc' = "done"
                     /\ report' = [outcome |-> "notfound", count |-> 0]
                     /\ events' = <<"getdir", "lookup", "error">>
                ELSE IF kind = "minisodes"
                THEN LET r    == CHOOSE x \in item : TRUE
                         name == Basename(r.media)
                     IN  /\ dl' = [NoDownload EXCEPT !.id = id, !.yes = yes,
                                     !.dir = d, !.name = name, !.resolved = TRUE]
                         /\ ResolvePath(d, name, yes, <<"getdir", "lookup">>)
                ELSE /\ dl' = [NoDownload EXCEPT !.id = id, !.yes = yes, !.dir = d]
                     /\ pc' = "dl_meta"
                     /\ report' = NoReport
                     /\ events' = <<"getdir", "lookup">>
    /\ UNCHANGED <<cfgVars, acctVars, store, ingestVars, out>>

\* the end of the process on an unhandled exception or an external kill
AbortDownload(why) ==
    /\ pc' = "aborted"
    /\ report' = [outcome |-> why, count |-> 0]
    /\ UNCHANGED <<cfgVars, acctVars, store, storeAtStart, ingestVars, fsVars, dl, events,
                   dirsAtStart, filesAtStart, out>>

\* _download_video, up to _get_download_path: the metadata lookup and the
\* stream resolution, which give the stream title
ResolveVideo ==
    /\ pc = "dl_meta"
    /\ \/ \E why \in {"net", "parse"} : AbortDownload(why)
       \/ \E t \in StreamTitles :
            /\ dl' = [dl EXCEPT !.title = t, !.name = VideoFileName(t),
                                !.resolved = TRUE]
            /\ ResolvePath(dl.dir, VideoFileName(t), dl.yes,
                           Append(events, "metadata"))
            /\ UNCHANGED <<cfgVars, acctVars, store, storeAtStart, ingestVars, fsVars,
                           dirsAtStart, filesAtStart, out>>

\* click.confirm('Download file to ...?')
AnswerPrompt ==
    /\ pc = "dl_prompt"
    /\ \E ans \in BOOLEAN :
         IF ans
         THEN /\ pc' = "dl_transfer"
              /\ report' = NoReport
              /\ Log("confirmed")
         ELSE /\ pc' = "done"
              /\ report' = [outcome |-> "declined", count |-> 0]
              /\ Log("declined")
    /\ UNCHANGED <<cfgVars, acctVars, store, storeAtStart, ingestVars, fsVars, dl,
                   dirsAtStart, filesAtStart, out>>

\* _download_episode: session.get(episode.audio, stream=True).  A response
\* with an error status is not raised: its body is what will be streamed.
RequestStream ==
    /\ pc = "dl_transfer"
    /\ kind = "minisodes"
    /\ \/ AbortDownload("net")
       \/ \E body \in {"media", "errorpage"}, n \in 0..MaxChunks :
            /\ dl' = [dl EXCEPT !.left = n, !.body = body]
            /\ pc' = "dl_open"
            /\ Log("request")
            /\ UNCHANGED <<cfgVars, acctVars, store, storeAtStart, ingestVars, fsVars,
                           report, dirsAtStart, filesAtStart, out>>

\* an open that leaves the creation of the file to the first write
FilesAfterOpenLazy(fs, p) == fs

\* open(file_path, "wb"): the file is created, or emptied, at once
FilesAfterOpen(fs, p) == WriteFile(fs, p, EmptyContent)

\* the `with open(...)` line, reached before the chunk loop asks the stream
\* for anything
OpenFile ==
    /\ pc = "dl_open"
    /\ files' = FilesAfterOpen(files, JoinPath(dl.dir, dl.name))
    /\ dl' = [dl EXCEPT !.wrote = dl.name]
    /\ pc' = "dl_write"
    /\ Log("open")
    /\ UNCHANGED <<cfgVars, acctVars, store, storeAtStart, ingestVars, dirs,
                   report, dirsAtStart, filesAtStart, out>>

\* one turn of the chunk loop: a chunk arrives and, unless it is empty, is
\* written and flushed; or the stream breaks
WriteChunk ==
    /\ pc = "dl_write"
    /\ dl.left > 0
    /\ \/ AbortDownload("net")
       \/ \E empty \in BOOLEAN :
            LET p == JoinPath(dl.dir, dl.name) IN
            /\ files' = IF empty THEN files
                        ELSE WriteFile(files, p,
                                 [src |-> dl.body, n |-> files[p].n + 1])
            /\ dl' = [dl EXCEPT !.left = dl.left - 1]
            /\ Log(IF empty THEN "skip" ELSE "write")
            /\ UNCHANGED <<cfgVars, acctVars, store, storeAtStart, ingestVars, dirs, pc,
                           report, dirsAtStart, filesAtStart, out>>

\* the stream is exhausted: the file is closed and the check follows
CloseFile ==
    /\ pc = "dl_write"
    /\ dl.left = 0
    /\ pc' = "dl_check"
    /\ UNCHANGED <<cfgVars, acctVars, store, storeAtStart, ingestVars, fsVars, dl, events,
                   report, dirsAtStart, filesAtStart, out>>

\* _download_video: stream.download(download_directory=video_path).  The
\* downloader writes the file under its own name for the stream, returns
\* without a file, or raises, with or without a started file.
LibraryDownload ==
    /\ pc = "dl_transfer"
    /\ kind = "videos"
    /\ \/ /\ AbortDownload("net")
       \/ \E nm \in LibraryFileNames(dl.title) :
            LET p == JoinPath(dl.dir, nm) IN
            \/ /\ files' = WriteFile(files, p, EmptyContent)
               /\ dl' = [dl EXCEPT !.wrote = nm]
               /\ pc' = "aborted"
               /\ report' = [outcome |-> "net", count |-> 0]
               /\ Log("open")
               /\ UNCHANGED <<cfgVars, acctVars, store, storeAtStart,
                              ingestVars, dirs, dirsAtStart, filesAtStart, out>>
            \/ /\ files' = WriteFile(files, p, [src |-> "media", n |-> 1])
               /\ dl' = [dl EXCEPT !.wrote = nm]
               /\ pc' = "dl_check"
               /\ events' = events \o <<"request", "open", "write">>
               /\ UNCHANGED <<cfgVars, acctVars, store, storeAtStart,
                              ingestVars, dirs, report, dirsAtStart,
                              filesAtStart, out>>
       \/ /\ pc' = "dl_check"
          /\ Log("request")
          /\ UNCHANGED <<cfgVars, acctVars, store, storeAtStart, ingestVars,
                         fsVars, dl, report, dirsAtStart, filesAtStart, out>>

\* a download that ends without looking for the file
PostCheckFailsNever(p, fs) == FALSE

\* `if not os.path.isfile(file_path)`
PostCheckFails(p, fs) == ~PathOccupied(p, fs)

\* the check after the transfer: self.manager.error(...) when the file is
\* not there; the function returns either way
CheckDownloaded ==
    /\ pc = "dl_check"
    /\ pc' = "done"
    /\ IF PostCheckFails(JoinPath(dl.dir, dl.name), files)
       THEN /\ report' = [outcome |-> "missing", count |-> 0]
            /\ events' = events \o <<"exists", "error">>
       ELSE /\ report' = [outcome |-> "downloaded", count |-> 0]
            /\ Log("exists")
    /\ UNCHANGED <<cfgVars, acctVars, store, storeAtStart, ingestVars, fsVars, dl,
                   dirsAtStart, filesAtStart, out>>

\* the process is terminated from outside while the download runs
InterruptDownload ==
    /\ pc \in {"dl_meta", "dl_prompt", "dl_transfer", "dl_open", "dl_write",
               "dl_check"}
    /\ AbortDownload("interrupt")

\* the directories a download may find: the --dest folder exists (click
\* checked it), the account's folder and the per-kind folders may not
DirUniverse ==
    {AccountDir, Append(AccountDir, ModelName), DestDir, Append(DestDir, ModelName)}

InitialDirs ==
    {ds \in SUBSET DirUniverse :
        /\ DestDir \in ds
        /\ \A d \in ds : Ancestors(d) \subseteq ds}

\* the file names a download of this kind can resolve
FileNames ==
    IF kind = "minisodes"
    THEN {Basename(r.media) : r \in DownloadStore}
    ELSE {VideoFileName(t) : t \in StreamTitles}

InitDownload ==
    /\ kind \in Kinds
    /\ autoflush = TRUE
    /\ store = DownloadStore
    /\ pc = "idle"
    /\ listing = <<>>
    /\ idx = 1
    /\ pending = <<>>
    /\ flushed = {}
    /\ added = <<>>
    /\ repeat = FALSE
    /\ storeAtStart = store
    /\ report = NoReport
    /\ dirs \in InitialDirs
    /\ \E ps \in SUBSET {JoinPath(Append(b, ModelName), nm) :
                            b \in {AccountDir, DestDir}, nm \in FileNames} :
         /\ \A p \in ps : p.dir \in dirs
         /\ files = [p \in ps |-> OldContent]
    /\ dl = NoDownload
    /\ events = <<>>
    /\ dirsAtStart = dirs
    /\ filesAtStart = files
    /\ out = NoOutput
    /\ accounts = OneAccount
    /\ auth = NoAuth

NextDownload ==
    \/ StartDownload
    \/ ResolveVideo
    \/ AnswerPrompt
    \/ RequestStream
    \/ OpenFile
    \/ WriteChunk
    \/ CloseFile
    \/ LibraryDownload
    \/ CheckDownloaded
    \/ InterruptDownload

SpecDownload == InitDownload /\ [][NextDownload]_vars

(***************************************************************************)
(* Download properties.                                                    *)
(***************************************************************************)
\* file_path: the destination the download resolved, which is checked,
\* shown at the prompt and examined after the transfer
ResolvedPath == JoinPath(dl.dir, dl.name)

Happened(e) == \E i \in 1..Len(events) : events[i] = e

C5_NotFoundWritesNothing ==
    report.outcome = "notfound" =>
        /\ dirs = dirsAtStart
        /\ files = filesAtStart

\* C6: a download the user declined at the prompt has no side effects: no
\* media requested or written, no file or directory created, table unchanged.
C6_DeclineNoSideEffects ==
    report.outcome = "declined" =>
        /\ dirs = dirsAtStart
        /\ files = filesAtStart
        /\ store = storeAtStart
        /\ ~Happened("request") /\ ~Happened("open") /\ ~Happened("write")

\* C16: the body of a media response that was not a success is never
\* written to the destination, and a download whose media request came back
\* with an error page does not end as a completed download.
C16_FailedMediaNotWritten ==
    /\ \A p \in DOMAIN files : files[p].src # "errorpage"
    /\ dl.body = "errorpage" => report.outcome # "downloaded"

\* C18: a download whose transfer completed ends normally either way: with
\* an error reported when the destination file does not exist, and with no
\* error when it does.
C18_PostTransferCheck ==
    /\ pc = "dl_check" => report.outcome = "none"
    /\ (pc = "done" /\ Happened("exists")) =>
          report.outcome \in {"downloaded", "missing"}
    /\ report.outcome = "missing" =>
          /\ pc = "done"
          /\ ResolvedPath \notin DOMAIN files
          /\ Happened("error")
    /\ report.outcome = "downloaded" =>
          /\ pc = "done"
          /\ ResolvedPath \in DOMAIN files
          /\ ~Happened("error")

\* a video download whose downloader returned and left no file at the
\* destination: the error is reported and the command has ended normally
C18_Witness ==
    /\ kind = "videos"
    /\ pc = "done"
    /\ report.outcome = "missing"
    /\ Happened("request")
    /\ ResolvedPath \notin DOMAIN files

\* the positions of event e in what the download did
At(e) == {i \in 1..Len(events) : events[i] = e}

\* every e is preceded by some f
Before(f, e) == \A i \in At(e) : \E j \in At(f) : j < i

\* C19: in every download the collision check comes before the approval
\* (the prompt and its answer, or the notice given for the pre-confirmation
\* flag), the approval before the request for the media and any write, and
\* the transfer before the existence check; nothing is requested or written
\* after a collision or without approval; on a collision no prompt is made.
C19_StepOrder ==
    /\ Before("check", "prompt") /\ Before("check", "echo")
    /\ Before("check", "warn")
    /\ Before("prompt", "confirmed") /\ Before("prompt", "declined")
    /\ \A t \in {"request", "open", "write", "skip"} :
          /\ Before("check", t)
          /\ IF dl.yes THEN Before("echo", t) ELSE Before("confirmed", t)
    /\ Before("request", "exists")
    /\ dl.yes => ~Happened("prompt")
    /\ (Happened("warn") \/ Happened("declined")) =>
          /\ ~Happened("request") /\ ~Happened("open")
          /\ ~Happened("write") /\ ~Happened("exists")
    /\ Happened("warn") => (~Happened("prompt") /\ ~Happened("echo"))
    /\ Cardinality(At("check")) <= 1

\* a download that was approved at the prompt, transferred and checked
C19_Witness ==
    /\ pc = "done"
    /\ report.outcome = "downloaded"
    /\ ~dl.yes
    /\ Happened("prompt") /\ Happened("confirmed")
    /\ Happened("write") /\ Happened("exists")

\* C21: in an episode download the file is created before any chunk is
\* taken from the stream and is there from then on, whether the stream is
\* empty, breaks, or the process is stopped; the "file missing" error does
\* not occur; no file ever disappears; and a later download that resolves
\* to a file an earlier one left ends with the "already exists" warning and
\* leaves that file as it was.
C21_EpisodeFileCreatedFirst ==
    /\ [](kind = "minisodes" =>
            /\ Before("open", "write") /\ Before("open", "skip")
            /\ Happened("open") => ResolvedPath \in DOMAIN files
            /\ report.outcome # "missing"
            /\ (dl.resolved /\ ResolvedPath \in DOMAIN filesAtStart) =>
                  /\ report.outcome = "conflict"
                  /\ files = filesAtStart)
    /\ [][kind = "minisodes" => DOMAIN files \subseteq DOMAIN files']_vars

\* a retry of an episode download whose earlier attempt left an empty file:
\* it stops on the warning and the file is still empty
C21_Witness ==
    /\ kind = "minisodes"
    /\ pc = "done"
    /\ report.outcome = "conflict"
    /\ ResolvedPath \in DOMAIN files
    /\ files[ResolvedPath] = EmptyContent

\* C20: in a video download the transfer writes to the destination that was
\* checked for collision, shown at the prompt and examined after the
\* transfer: the one file name resolved from the stream title.
C20_VideoPathResolvedOnce ==
    (kind = "videos" /\ dl.wrote # <<>>) => dl.wrote = dl.name

(***************************************************************************)
(* The list and feed commands: MinisodeContent.list / VideoContent.list,   *)
(* MinisodeContent.feed / VideoContent.feed, _create_episode_feed /        *)
(* _create_video_feed.  The --refresh flag runs the ingestion above first  *)
(* and is left off here.  Each behaviour is one invocation of one command  *)
(* on a table and a file system drawn by InitQuery.                        *)
(***************************************************************************)
MaxRows == 11
SmallRows == 3

\* click.option('-n', '--number', default=10) of list, and of the video feed
DefaultListNumber == 10
DefaultFeedNumber == 10

Min(a, b) == IF a < b THEN a ELSE b

\* whether row r1 precedes r2 under ORDER BY date; rows of one date come in
\* rowid order or against it, as the engine's scan goes
Precedes(r1, r2, desc, tieAsc) ==
    IF r1.date # r2.date
    THEN IF desc THEN r1.date > r2.date ELSE r1.date < r2.date
    ELSE IF tieAsc THEN r1.id < r2.id ELSE r1.id > r2.id

\* query.order_by(...).all()
RECURSIVE OrderBy(_, _, _)
OrderBy(rows, desc, tieAsc) ==
    IF rows = {} THEN <<>>
    ELSE LET first == CHOOSE r \in rows :
                        \A x \in rows \ {r} : Precedes(r, x, desc, tieAsc)
         IN  <<first>> \o OrderBy(rows \ {first}, desc, tieAsc)

\* text LIKE '%pat%', for a pattern of plain letters
RECURSIVE Like(_, _)
Like(text, pat) ==
    IF Len(pat) > Len(text) THEN FALSE
    ELSE IF SubSeq(text, 1, Len(pat)) = pat THEN TRUE
    ELSE Like(Tail(text), pat)

\* the filters of the list command: for episodes --search over title or
\* description; for videos --type over the type and --search over the title
Selected(r, search, type) ==
    IF kind = "minisodes"
    THEN search = <<>> \/ Like(r.title, search) \/ Like(r.text, search)
    ELSE /\ type = <<>> \/ Like(r.text, type)
         /\ search = <<>> \/ Like(r.title, search)

\* LIMIT n as sqlite applies it: a negative n is no limit
SqlLimit(seq, n) == IF n < 0 THEN seq ELSE SubSeq(seq, 1, Min(n, Len(seq)))

\* a list limit guarded by `number >= 0`
ListLimitFromZero(seq, n) == IF n >= 0 THEN SqlLimit(seq, n) ELSE seq

\* list: `if number > 0: query = query.limit(number)`
ListLimit(seq, n) == IF n > 0 THEN SqlLimit(seq, n) ELSE seq

\* --number as given on the command line: <<>> when the option is left out
NumberArgs == {<<>>} \cup {<<n>> : n \in {-1, 0, 1, 2, MaxRows + 1}}

\* the value click passes for --number
NumberValue(arg, default) == IF arg = <<>> THEN default ELSE arg[1]

Searches == {<<>>, <<"a">>, <<"t">>}
TypeFilters == {<<>>, <<"t">>}

\* every feed in descending order
FeedDescendingAlways == TRUE

\* the feed's ORDER BY: date.asc() for episodes, date.desc() for videos
FeedDescending == kind = "videos"

\* the rows of the feed: all episodes; the videos under .limit(limit)
FeedRows(rows, number, tieAsc) ==
    IF kind = "minisodes"
    THEN OrderBy(rows, FeedDescending, tieAsc)
    ELSE SqlLimit(OrderBy(rows, FeedDescending, tieAsc),
                  NumberValue(number, DefaultFeedNumber))

\* os.path.join(file_dir, f'{self.model_name}.xml')
FeedPath(d) == JoinPath(d, <<kind, ".xml">>)

FeedContent == [src |-> "feed", n |-> 1]

ListCommand ==
    /\ pc = "idle"
    /\ \E number \in NumberArgs, search \in Searches, tieAsc \in BOOLEAN,
          type \in (IF kind = "videos" THEN TypeFilters ELSE {<<>>}) :
         LET ordered == OrderBy({r \in store : Selected(r, search, type)},
                                TRUE, tieAsc)
             rows    == ListLimit(ordered, NumberValue(number, DefaultListNumber))
         IN  /\ out' = [NoOutput EXCEPT !.cmd = "list", !.rows = rows,
                          !.number = number, !.search = search, !.type = type,
                          !.printed = rows # <<>>]
             /\ report' = IF rows = <<>>
                          THEN [outcome |-> "nonefound", count |-> 0]
                          ELSE [outcome |-> "listed", count |-> Len(rows)]
    /\ pc' = "done"
    /\ storeAtStart' = store
    /\ dirsAtStart' = dirs
    /\ filesAtStart' = files
    /\ events' = <<>>
    /\ UNCHANGED <<cfgVars, acctVars, store, ingestVars, fsVars, dl>>

\* feed: the directory is resolved first; the episode feed then probes each
\* audio file with a HEAD request, which may fail
FeedCommand ==
    /\ pc = "idle"
    /\ \E print \in BOOLEAN, dest \in DestOptions, tieAsc \in BOOLEAN,
          headsOk \in BOOLEAN,
          number \in (IF kind = "videos" THEN NumberArgs ELSE {<<>>}) :
         LET d    == DownloadDirPath(dest, FALSE)
             rows == FeedRows(store, number, tieAsc)
         IN  /\ dirs' = DirsAfterGetDownloadDir(d, dirs)
             /\ IF kind = "minisodes" /\ store # {} /\ ~headsOk
                THEN /\ pc' = "aborted"
                     /\ report' = [outcome |-> "net", count |-> 0]
                     /\ out' = NoOutput
                     /\ files' = files
                ELSE /\ pc' = "done"
                     /\ out' = [NoOutput EXCEPT !.cmd = "feed", !.rows = rows,
                                  !.number = number, !.printed = print,
                                  !.written = ~print, !.dir = d]
                     /\ report' = IF print
                                  THEN [outcome |-> "printed", count |-> Len(rows)]
                                  ELSE [outcome |-> "created", count |-> Len(rows)]
                     /\ files' = IF print THEN files
                                 ELSE WriteFile(files, FeedPath(d), FeedContent)
    /\ storeAtStart' = store
    /\ dirsAtStart' = dirs
    /\ filesAtStart' = files
    /\ events' = <<>>
    /\ UNCHANGED <<cfgVars, acctVars, store, ingestVars, dl>>

\* the rows of the tables the queries run against: ids 1..n, (title, url)
\* distinct
QueryRow(i, d) ==
    [id |-> i, title |-> IF i % 2 = 1 THEN <<"a">> ELSE <<"b">>,
     url |-> <<"H", "/", ToString(i)>>, date |-> d,
     text |-> IF i % 3 = 0 THEN <<"t">> ELSE <<"s">>,
     media |-> <<"u", "/", ToString(i)>>]

\* publish dates: every assignment of two dates for a small table; rising,
\* falling and alternating dates for a larger one
DateMaps(n) ==
    IF n <= SmallRows THEN [1..n -> 1..2]
    ELSE { [i \in 1..n |-> i], [i \in 1..n |-> n + 1 - i],
           [i \in 1..n |-> 1 + (i % 2)] }

QueryStores ==
    UNION { { {QueryRow(i, dm[i]) : i \in 1..n} : dm \in DateMaps(n) } :
            n \in 0..MaxRows }

InitQuery ==
    /\ kind \in Kinds
    /\ autoflush = TRUE
    /\ store \in QueryStores
    /\ pc = "idle"
    /\ listing = <<>>
    /\ idx = 1
    /\ pending = <<>>
    /\ flushed = {}
    /\ added = <<>>
    /\ repeat = FALSE
    /\ storeAtStart = store
    /\ report = NoReport
    /\ dirs \in {{DestDir}, {DestDir, AccountDir}}
    /\ \E ps \in SUBSET {FeedPath(AccountDir), FeedPath(DestDir)} :
         /\ \A p \in ps : p.dir \in dirs
         /\ files = [p \in ps |-> OldContent]
    /\ dl = NoDownload
    /\ events = <<>>
    /\ dirsAtStart = dirs
    /\ filesAtStart = files
    /\ out = NoOutput
    /\ accounts = OneAccount
    /\ auth = NoAuth

NextQuery ==
    \/ ListCommand
    \/ FeedCommand

SpecQuery == InitQuery /\ [][NextQuery]_vars

(***************************************************************************)
(* List and feed properties.                                               *)
(***************************************************************************)
RowSet(seq) == {seq[i] : i \in 1..Len(seq)}

Descending(seq) ==
    \A i, j \in 1..Len(seq) : i < j => seq[i].date >= seq[j].date

Ascending(seq) ==
    \A i, j \in 1..Len(seq) : i < j => seq[i].date <= seq[j].date

\* the rows of the table that pass the filters the list command was given
ListMatches == {r \in store : Selected(r, out.search, out.type)}

\* the list shows `count` of the matching rows, each once, newest first, and
\* none that was left out is newer than one that is shown
ListShows(count) ==
    /\ Len(out.rows) = count
    /\ Cardinality(RowSet(out.rows)) = count
    /\ RowSet(out.rows) \subseteq ListMatches
    /\ Descending(out.rows)
    /\ \A m \in ListMatches \ RowSet(out.rows), i \in 1..Len(out.rows) :
          out.rows[i].date >= m.date

\* C7, as amended: with limit N > 0 the list shows the first min(N, M) of
\* the M matching rows, newest first; with N <= 0 it shows all M; with no
\* limit given the limit is 10, and it shows the first min(10, M).
C7_ListLimitDefaultTen ==
    out.cmd = "list" =>
        LET n == IF out.number = <<>> THEN 10 ELSE out.number[1]
            m == Cardinality(ListMatches)
        IN  ListShows(IF n > 0 THEN Min(n, m) ELSE m)

\* a list without --number on a table of more than ten matching rows
C7_Witness ==
    /\ out.cmd = "list"
    /\ out.number = <<>>
    /\ Cardinality(ListMatches) > 10
    /\ Len(out.rows) = 10

\* C7, as stated: with limit N > 0 the list shows the first min(N, M)
\* matching rows, newest first; with N <= 0 or no limit given it shows all M.
C7_ListLimitUnsetAll ==
    out.cmd = "list" =>
        LET m == Cardinality(ListMatches)
        IN  ListShows(IF out.number # <<>> /\ out.number[1] > 0
                      THEN Min(out.number[1], m) ELSE m)

\* C8: the feed of a table of S rows has min(N, S) entries for a limit
\* N > 0, and S entries for N <= 0 or no limit given.
C8_FeedLimit ==
    out.cmd = "feed" =>
        LET s == Cardinality(store)
        IN  Len(out.rows) = IF out.number # <<>> /\ out.number[1] > 0
                            THEN Min(out.number[1], s) ELSE s

C10_FeedOutputExclusive ==
    out.cmd = "feed" =>
        IF out.printed
        THEN /\ ~out.written
             /\ files = filesAtStart
             /\ dirs = dirsAtStart
        ELSE /\ out.written
             /\ FeedPath(out.dir) \in DOMAIN files
             /\ files[FeedPath(out.dir)] = FeedContent

(***************************************************************************)
(* Accounts: FanCultContent._get_account, login_user, _make_login_request  *)
(* and the login command.                                                  *)
(***************************************************************************)
MaxAccounts == 2

\* the usernames a login may be made with; username is the primary key
Usernames == 1..MaxAccounts
Passwords == {"p", "q"}

\* what tells two encodings of one password apart
Salts == {1, 2}

\* click.prompt(..., default=0): the index taken when the user just presses
\* enter
DefaultIndex == 0

\* manager.decode(account.password)
Decoded(opaque) == opaque.plain

\* filter_by(username=username).first(): the position of the row, or 0
FindAccount(rows, username) ==
    IF \E i \in 1..Len(rows) : rows[i].username = username
    THEN CHOOSE i \in 1..Len(rows) : rows[i].username = username
    ELSE 0

\* the auth record when account i of the table is taken
WithAccount(a, i, typed) ==
    [a EXCEPT !.selected = i, !.explicit = typed,
              !.username = accounts[i].username,
              !.password = Decoded(accounts[i].password)]

\* login_user begins: _get_account
ResolveAccount ==
    /\ Idle
    /\ LET a == [NoAuth EXCEPT !.cmd = "resolve", !.before = accounts] IN
       IF Len(accounts) = 0
       THEN /\ auth' = a
            /\ pc' = "done"
            /\ report' = [outcome |-> "nologin", count |-> 0]
       ELSE IF Len(accounts) = 1
       THEN /\ auth' = WithAccount(a, 1, FALSE)
            /\ pc' = "auth_form"
            /\ report' = NoReport
       ELSE /\ auth' = [a EXCEPT !.prompted = TRUE]
            /\ pc' = "auth_choose"
            /\ report' = NoReport
    /\ UNCHANGED <<cfgVars, accounts, store, storeAtStart, ingestVars, fsVars,
                   dlVars, out>>

\* an exception nothing catches: the process ends with a traceback
AuthFault(status) ==
    /\ pc' = "aborted"
    /\ report' = [outcome |-> "fault", count |-> 0]
    /\ auth' = [auth EXCEPT !.status = status]
    /\ UNCHANGED <<cfgVars, accounts, store, storeAtStart, ingestVars, fsVars,
                   dlVars, out>>

\* the 'Enter account number' prompt: an index is typed, or enter is
\* pressed and the default is taken, or the input ends
ChooseAccount ==
    /\ pc = "auth_choose"
    /\ \/ \E i \in 1..Len(accounts) :
            /\ auth' = WithAccount(auth, i, TRUE)
            /\ pc' = "auth_form"
            /\ UNCHANGED <<cfgVars, accounts, store, storeAtStart, report,
                           ingestVars, fsVars, dlVars, out>>
       \/ /\ auth' = WithAccount(auth, DefaultIndex + 1, FALSE)
          /\ pc' = "auth_form"
          /\ UNCHANGED <<cfgVars, accounts, store, storeAtStart, report,
                         ingestVars, fsVars, dlVars, out>>
       \/ AuthFault("noinput")

\* the login command begins: look the username up
StartLogin ==
    /\ Idle
    /\ \E u \in Usernames, pw \in Passwords :
         auth' = [NoAuth EXCEPT !.cmd = "login", !.username = u,
                                !.password = pw, !.before = accounts,
                                !.selected = FindAccount(accounts, u)]
    /\ pc' = "auth_form"
    /\ report' = NoReport
    /\ UNCHANGED <<cfgVars, accounts, store, storeAtStart, ingestVars, fsVars,
                   dlVars, out>>

\* _make_login_request: session.get(self.login_url) and the form's action.
\* The request is outside any try; a page without a form gives None.get.
FetchLoginForm ==
    /\ pc = "auth_form"
    /\ \/ /\ pc' = "auth_post"
          /\ UNCHANGED <<cfgVars, acctVars, store, storeAtStart, report,
                         ingestVars, fsVars, dlVars, out>>
       \/ \E status \in {"connfail_form", "noform"} : AuthFault(status)

\* what the credential post can come back with: no connection, an error
\* status, a body that is not the expected JSON, LoginStatus false or true
PostResponses ==
    {"connfail_post", "httperror", "badjson", "status_false", "status_true"}

\* the responses _make_login_request turns into `return False`, with an
\* 'Unable to login' message
ReportedFailures == {"httperror", "status_false"}

\* _make_login_request returned False: login_user returns None, the login
\* command returns
LoginFailed(status) ==
    /\ pc' = "done"
    /\ report' = [outcome |-> "authfailed", count |-> 0]
    /\ auth' = [auth EXCEPT !.status = status]
    /\ accounts' = accounts

\* _make_login_request returned True
LoginSucceeded ==
    IF auth.cmd = "resolve"
    THEN /\ pc' = "done"
         /\ report' = [outcome |-> "authenticated", count |-> 0]
         /\ auth' = [auth EXCEPT !.status = "status_true",
                                 !.account = auth.selected]
         /\ accounts' = accounts
    ELSE IF auth.selected = 0
    THEN /\ pc' = "done"
         /\ report' = [outcome |-> "loggedin", count |-> 0]
         /\ auth' = [auth EXCEPT !.status = "status_true"]
         /\ \E salt \in Salts :
              accounts' = Append(accounts,
                                 AccountRow(auth.username,
                                            Encoded(auth.password, salt)))
    ELSE /\ pc' = "auth_confirm"
         /\ report' = NoReport
         /\ auth' = [auth EXCEPT !.status = "status_true"]
         /\ accounts' = accounts

\* _make_login_request: the post, raise_for_status in its try, LoginStatus
PostCredentials ==
    /\ pc = "auth_post"
    /\ \E resp \in PostResponses :
         IF resp = "status_true"
         THEN /\ LoginSucceeded
              /\ UNCHANGED <<cfgVars, store, storeAtStart, ingestVars, fsVars,
                             dlVars, out>>
         ELSE IF resp \in ReportedFailures
         THEN /\ LoginFailed(resp)
              /\ UNCHANGED <<cfgVars, store, storeAtStart, ingestVars, fsVars,
                             dlVars, out>>
         ELSE AuthFault(resp)

\* login: click.confirm('Confirm password change for account'), asked
\* whatever the stored password is
ConfirmPasswordChange ==
    /\ pc = "auth_confirm"
    /\ pc' = "done"
    /\ \E ans \in BOOLEAN :
         IF ans
         THEN /\ \E salt \in Salts :
                   accounts' = [accounts EXCEPT ![auth.selected].password =
                                    Encoded(auth.password, salt)]
              /\ report' = [outcome |-> "updated", count |-> 0]
              /\ auth' = [auth EXCEPT !.confirmed = TRUE]
         ELSE /\ accounts' = accounts
              /\ report' = [outcome |-> "declined", count |-> 0]
              /\ auth' = auth
    /\ UNCHANGED <<cfgVars, store, storeAtStart, ingestVars, fsVars, dlVars,
                   out>>

InitAccount ==
    /\ kind \in Kinds
    /\ autoflush = TRUE
    /\ store = {}
    /\ pc = "idle"
    /\ listing = <<>>
    /\ idx = 1
    /\ pending = <<>>
    /\ flushed = {}
    /\ added = <<>>
    /\ repeat = FALSE
    /\ storeAtStart = store
    /\ report = NoReport
    /\ dirs = {}
    /\ files = <<>>
    /\ dl = NoDownload
    /\ events = <<>>
    /\ dirsAtStart = dirs
    /\ filesAtStart = files
    /\ out = NoOutput
    /\ accounts = <<>>
    /\ auth = NoAuth

NextAccount ==
    \/ ResolveAccount
    \/ ChooseAccount
    \/ StartLogin
    \/ FetchLoginForm
    \/ PostCredentials
    \/ ConfirmPasswordChange

SpecAccount == InitAccount /\ [][NextAccount]_vars

(***************************************************************************)
(* Account properties.                                                     *)
(***************************************************************************)
\* C12: with more than one stored account no account is taken unless the
\* caller selected it by index, and the resolution fails otherwise; with
\* exactly one account it is taken without a prompt; with none it fails.
C12_ExplicitSelection ==
    auth.cmd = "resolve" =>
        /\ (Len(accounts) > 1 /\ auth.selected # 0) => auth.explicit
        /\ (Len(accounts) = 1 /\ pc # "idle") =>
              (auth.selected = 1 /\ ~auth.prompted)
        /\ Len(accounts) = 0 =>
              (auth.selected = 0 /\ report.outcome = "nologin")

\* C13: a login attempt gives an authenticated account only on a true login
\* status; a transport failure of the form fetch or of the credential post,
\* and a report of invalid credentials, end the attempt with a reported
\* authentication failure and no account, not with an unhandled fault.
C13_LoginFailureReported ==
    /\ (auth.cmd = "resolve" /\ auth.account # 0) => auth.status = "status_true"
    /\ auth.status \in {"connfail_form", "connfail_post", "status_false"} =>
          /\ pc = "done"
          /\ report.outcome = "authfailed"
          /\ auth.account = 0

\* C14: the login command changes the account table only after a successful
\* login request; an unknown username gets exactly one new row; a known
\* username has its credential replaced only when the password differs and
\* the user confirmed; a failed login or a declined confirmation leaves the
\* table as it was; no username ever has two rows.
C14_LoginTableChange ==
    auth.cmd = "login" =>
        /\ accounts # auth.before => auth.status = "status_true"
        /\ (auth.selected = 0 /\ accounts # auth.before) =>
              \E salt \in Salts :
                 accounts = Append(auth.before,
                                   AccountRow(auth.username,
                                              Encoded(auth.password, salt)))
        /\ (auth.selected # 0 /\ accounts # auth.before) =>
              /\ auth.confirmed
              /\ Len(accounts) = Len(auth.before)
              /\ auth.password # Decoded(auth.before[auth.selected].password)
        /\ report.outcome \in {"authfailed", "declined", "fault"} =>
              accounts = auth.before
        /\ \A i, j \in 1..Len(accounts) :
              accounts[i].username = accounts[j].username => i = j

(***************************************************************************)
(* All content commands of one kind over one table: update, download,      *)
(* list, feed, show and open.  Each behaviour is one command on a table    *)
(* and a file system drawn by InitCatalog; the table a command leaves is   *)
(* the table the next command finds.                                       *)
(***************************************************************************)
\* show: get_episode / get_video, then the details are echoed
ShowCommand ==
    /\ pc = "idle"
    /\ \E id \in IdArguments :
         LET item == GetById(store, id) IN
         IF item = {}
         THEN /\ report' = [outcome |-> "notfound", count |-> 0]
              /\ out' = [NoOutput EXCEPT !.cmd = "show"]
         ELSE /\ report' = [outcome |-> "shown", count |-> 1]
              /\ out' = [NoOutput EXCEPT !.cmd = "show", !.printed = TRUE,
                           !.rows = <<CHOOSE r \in item : TRUE>>]
    /\ pc' = "done"
    /\ storeAtStart' = store
    /\ dirsAtStart' = dirs
    /\ filesAtStart' = files
    /\ events' = <<>>
    /\ UNCHANGED <<cfgVars, acctVars, store, ingestVars, fsVars, dl>>

\* open: get_episode / get_video, then click.launch(url)
OpenCommand ==
    /\ pc = "idle"
    /\ \E id \in IdArguments :
         LET item == GetById(store, id) IN
         IF item = {}
         THEN /\ report' = [outcome |-> "notfound", count |-> 0]
              /\ out' = [NoOutput EXCEPT !.cmd = "open"]
              /\ events' = <<>>
         ELSE /\ report' = [outcome |-> "opened", count |-> 1]
              /\ out' = [NoOutput EXCEPT !.cmd = "open", !.printed = TRUE,
                           !.rows = <<CHOOSE r \in item : TRUE>>]
              /\ events' = <<"launch">>
    /\ pc' = "done"
    /\ storeAtStart' = store
    /\ dirsAtStart' = dirs
    /\ filesAtStart' = files
    /\ UNCHANGED <<cfgVars, acctVars, store, ingestVars, fsVars, dl>>

UpdateCommand == pc = "idle" /\ StartUpdate

DownloadCommand == pc = "idle" /\ StartDownload

InitCatalog ==
    /\ kind \in Kinds
    /\ autoflush \in BOOLEAN
    /\ store \in SUBSET DownloadStore
    /\ pc = "idle"
    /\ listing = <<>>
    /\ idx = 1
    /\ pending = <<>>
    /\ flushed = {}
    /\ added = <<>>
    /\ repeat = FALSE
    /\ storeAtStart = store
    /\ report = NoReport
    /\ dirs \in InitialDirs
    /\ \E ps \in SUBSET {JoinPath(Append(b, ModelName), nm) :
                            b \in {AccountDir, DestDir}, nm \in FileNames} :
         /\ \A p \in ps : p.dir \in dirs
         /\ files = [p \in ps |-> OldContent]
    /\ dl = NoDownload
    /\ events = <<>>
    /\ dirsAtStart = dirs
    /\ filesAtStart = files
    /\ out = NoOutput
    /\ accounts = OneAccount
    /\ auth = NoAuth

NextCatalog ==
    \/ UpdateCommand
    \/ ScanCandidate
    \/ FinishUpdate
    \/ InterruptUpdate
    \/ DownloadCommand
    \/ ResolveVideo
    \/ AnswerPrompt
    \/ RequestStream
    \/ OpenFile
    \/ WriteChunk
    \/ CloseFile
    \/ LibraryDownload
    \/ CheckDownloaded
    \/ InterruptDownload
    \/ ListCommand
    \/ FeedCommand
    \/ ShowCommand
    \/ OpenCommand

SpecCatalog == InitCatalog /\ [][NextCatalog]_vars

(***************************************************************************)
(* Catalog properties.                                                     *)
(***************************************************************************)
\* C17: no step of any content command deletes or alters a committed row,
\* and the only step that changes the table is the commit that ends an
\* update run: download (a file conflict included), list, feed, show and
\* open leave the table as it is.
C17_AppendOnly ==
    [][ /\ store \subseteq store'
        /\ store' # store => (pc = "scan" /\ pc' = "done") ]_vars

\* a download that stopped on a file conflict, on a table that holds rows
C17_Witness ==
    /\ pc = "done"
    /\ report.outcome = "conflict"
    /\ store # {}
    /\ store = storeAtStart

====
